---------------------------- MODULE Spec2Model ----------------------------
(***************************************************************************)
(* Stem extraction pipeline of untracker: the orchestrator that enumerates *)
(* the voices of a tracker module, and the per-voice job that loads a      *)
(* fresh engine handle, mutes every voice but the target, renders the song *)
(* chunk by chunk and encodes the PCM into one output file.                *)
(*                                                                         *)
(* Two stem-producing code paths are modelled:                             *)
(*   entry = "legacy" : src/src/main.rs (main, render_instrument_stem,     *)
(*                      render_sample_stem and its own writers);           *)
(*   entry = "cli"    : the option-taking front end exercised by           *)
(*                      tests/cli_tests.rs, which drives lib.rs's          *)
(*                      render_stem and audio/mod.rs's write_audio_file.   *)
(* All cargo features (vorbis, opus, flac) are taken as enabled.           *)
(*                                                                         *)
(* The tracker engine (libopenmpt) is an external collaborator.  A module  *)
(* file determines its behaviour: the voice counts, whether the bytes      *)
(* load, whether the interactive interface exists, and the song, i.e. the  *)
(* frames each successive read returns and the position reported after it. *)
(* PCM is kept run-length encoded: a run <<tag, len>> stands for len       *)
(* samples written by the tag-th read of the handle (tag 0: the zeros the  *)
(* chunk buffer is created with).  The tag is also the value of those      *)
(* samples: read i is taken to produce samples of value i, and a buffer    *)
(* handed to an encoder directly is a sequence of runs <<value, len>>.     *)
(***************************************************************************)
EXTENDS Integers, Sequences, FiniteSets, TLC

(* ------------------------------ bounds -------------------------------- *)
\* Largest number of instruments, and of samples, a modelled module has.
MaxVoices == 3
\* Largest number of non-final reads a modelled song scripts.
MaxChunks == 2
\* Largest song position / duration, in abstract seconds.
MaxTime == 2
\* Largest number of voices of a run whose jobs are dispatched concurrently.
MaxParVoices == 2

\* No job of the model's engines makes more reads than this.
MaxReads == MaxChunks + MaxTime + 3

(* ------------------------- program constants -------------------------- *)
\* vec![0i16; 8192] in render_stem
ChunkBufferLen == 8192
\* &mut samples[..4096], the mono slice of the chunk buffer
MonoSliceLen == 4096
\* buffer_size = 44100 * 2 in render_instrument_stem / render_sample_stem
LegacyBufferLen == 88200
\* sample_rate = 44100 in render_instrument_stem / render_sample_stem
LegacySampleRate == 44100
\* the rate render_stem falls back to for Opus
OpusFallbackRate == 48000
\* pre_skip = 312u64 in write_opus_file
PreSkip == 312

OpusRates == {8000, 12000, 16000, 24000, 48000}

(* ------------------------------ helpers ------------------------------- *)
Min(a, b) == IF a <= b THEN a ELSE b

\* Run-length encoded sample sequences.
RECURSIVE RunsLen(_)
RunsLen(r) == IF r = <<>> THEN 0 ELSE Head(r)[2] + RunsLen(Tail(r))

\* r with the run <<tag, n>> appended, adjacent equal tags merged, empty
\* runs dropped: every sample sequence has one representation.
RunsAppend(r, tag, n) ==
    IF n = 0 THEN r
    ELSE IF r # <<>> /\ r[Len(r)][1] = tag
         THEN [r EXCEPT ![Len(r)] = <<tag, r[Len(r)][2] + n>>]
         ELSE Append(r, <<tag, n>>)

RECURSIVE RunsConcat(_, _)
RunsConcat(a, b) ==
    IF b = <<>> THEN a
    ELSE RunsConcat(RunsAppend(a, Head(b)[1], Head(b)[2]), Tail(b))

\* The first n samples of r (n <= RunsLen(r)).
RECURSIVE RunsTake(_, _)
RunsTake(r, n) ==
    IF n = 0 \/ r = <<>> THEN <<>>
    ELSE IF Head(r)[2] <= n
         THEN RunsConcat(<<Head(r)>>, RunsTake(Tail(r), n - Head(r)[2]))
         ELSE <<<<Head(r)[1], n>>>>

\* r without its first n samples.
RECURSIVE RunsDrop(_, _)
RunsDrop(r, n) ==
    IF n = 0 \/ r = <<>> THEN r
    ELSE IF Head(r)[2] <= n
         THEN RunsDrop(Tail(r), n - Head(r)[2])
         ELSE <<<<Head(r)[1], Head(r)[2] - n>>>> \o Tail(r)

\* The tags of the samples of r.
RunsTags(r) == {r[i][1] : i \in 1..Len(r)}


(* ------------------- pure functions of the program -------------------- *)
\* str::to_lowercase over the format names the model draws.
to_lowercase(s) ==
    CASE s = "WAV" -> "wav"
      [] s = "Opus" -> "opus"
      [] OTHER -> s

\* Faulty variant: the name is matched as spelled.
from_str_exact(s) ==
    CASE s = "wav" -> "Wav"
      [] s = "vorbis" \/ s = "ogg" -> "Vorbis"
      [] s = "opus" -> "Opus"
      [] s = "flac" -> "Flac"
      [] OTHER -> "Err"

\* AudioFormat::from_str: the parsed format, or "Err".
from_str(s) ==
    LET l == to_lowercase(s) IN
    CASE l = "wav" -> "Wav"
      [] l = "vorbis" \/ l = "ogg" -> "Vorbis"
      [] l = "opus" -> "Opus"
      [] l = "flac" -> "Flac"
      [] OTHER -> "Err"

\* main's own format check: an exact match of the four names.
legacy_format_ok(s) == s \in {"wav", "vorbis", "opus", "flac"}

\* Faulty variant: the position of the method in the list, not its length.
filter_length_ordinal(m) ==
    CASE m = "Nearest" -> 1
      [] m = "Linear" -> 2
      [] m = "Cubic" -> 3
      [] m = "Sinc" -> 4

\* ResampleMethod::to_openmpt_filter_length
to_openmpt_filter_length(m) ==
    CASE m = "Nearest" -> 1
      [] m = "Linear" -> 2
      [] m = "Cubic" -> 4
      [] m = "Sinc" -> 8

\* Faulty variant: no correction.
uncorrected_options(options) == options

\* The shadowed `options` of render_stem: the Opus rate correction.
corrected_options(options) ==
    IF options.format = "Opus" /\ options.sample_rate \notin OpusRates
    THEN [options EXCEPT !.sample_rate = OpusFallbackRate]
    ELSE options

type_label(is_instrument) == IF is_instrument THEN "instrument" ELSE "sample"

ext_str(format) ==
    CASE format = "Wav" -> "wav"
      [] format = "Vorbis" -> "ogg"
      [] format = "Opus" -> "opus"
      [] format = "Flac" -> "flac"

\* The decimal digits of n >= 0, most significant first.
RECURSIVE Digits(_)
Digits(n) == IF n < 10 THEN <<n>> ELSE Append(Digits(n \div 10), n % 10)

\* format!("{:03}", n): zero-padded to at least three digits.
RECURSIVE PadLeft(_, _)
PadLeft(d, w) == IF Len(d) >= w THEN d ELSE PadLeft(<<0>> \o d, w)

\* Faulty variant: exactly three digits, the last three.
Fmt03Last3(n) == PadLeft(Digits(n % 1000), 3)

Fmt03(n) == PadLeft(Digits(n), 3)

\* The number a digit string denotes (how a reader of the name parses it).
RECURSIVE DigitsValue(_)
DigitsValue(d) ==
    IF d = <<>> THEN 0 ELSE 10 * DigitsValue(SubSeq(d, 1, Len(d) - 1)) + d[Len(d)]

\* format!("{}/{}_{}_{:03}.{}", output_dir, base_name, type_label, index + 1, ext_str)
output_path(output_dir, base_name, label, ordinal, ext) ==
    [dir |-> output_dir, base |-> base_name, label |-> label,
     ord |-> Fmt03(ordinal), ext |-> ext]

(* ----------------------- the engine, as adapted ----------------------- *)
\* The voice table set_instrument_mute_status indexes: the instruments of
\* a module that has any, its samples otherwise.
VoiceTable(m) ==
    IF m.num_instruments # 0 THEN 0..(m.num_instruments - 1)
    ELSE 0..(m.num_samples - 1)

\* A freshly loaded handle: nothing muted, default render configuration,
\* song at its start.
NewHandle(m, user) ==
    [mute |-> [v \in VoiceTable(m) |-> FALSE],
     filter |-> 0, separation |-> 100, configured |-> 0,
     cursor |-> 0, position |-> 0,
     alive |-> TRUE, users |-> {user}]

\* InteractiveInterface::set_instrument_mute_status: the engine rejects an
\* index outside its voice table and changes nothing.
set_instrument_mute_status(h, instrument, mute) ==
    IF instrument \in DOMAIN h.mute
    THEN [h EXCEPT !.mute[instrument] = mute]
    ELSE h

\* The frames the next read of handle h returns into a buffer that holds
\* `capacity` frames: what the song scripts, nothing past its end.
NextFrames(m, h, capacity) ==
    IF h.cursor < Len(m.song)
    THEN Min(m.song[h.cursor + 1].frames, capacity)
    ELSE IF m.endless THEN capacity ELSE 0

\* The handle after that read.
AfterRead(m, h) ==
    IF h.cursor < Len(m.song)
    THEN [h EXCEPT !.cursor = @ + 1, !.position = m.song[h.cursor + 1].pos]
    ELSE IF m.endless THEN [h EXCEPT !.cursor = @ + 1, !.position = @ + 1]
    ELSE h

\* ModuleExt::read_interleaved_stereo: count = len >> 1 frames requested.
read_interleaved_stereo(m, h, buflen) == NextFrames(m, h, buflen \div 2)

\* Module::read_mono into a slice of buflen samples.
read_mono(m, h, buflen) == NextFrames(m, h, buflen)

\* The chunk buffer after the engine wrote n samples of read `tag` at its
\* start: the rest keeps what it held.
BufferWrite(buf, tag, n) == RunsConcat(RunsAppend(<<>>, tag, n), RunsDrop(buf, n))

(* ------------------------------- state -------------------------------- *)
VARIABLES
    entry,            \* "legacy" (src/main.rs) or "cli" (front end over lib.rs)
    parallel,         \* the --parallel flag
    args,             \* the options as requested on the command line
    module,           \* what the input file makes the engine do
    disk,             \* which file-system operations fail
    runPc,            \* the orchestrator's position
    opts,             \* the ExportOptions built from args
    num_instruments,  \* main's local
    num_samples,      \* main's local
    samplesQueried,   \* whether main called get_num_samples
    nextVoice,        \* the sequential loop's next 1-based voice
    jobs,             \* per 1-based voice: the state of its stem job
    handles,          \* every engine handle ever loaded, in load order
    files,            \* the output directory: a set of [path, body]
    creates           \* every file creation so far: a sequence of [job, path]

vars == <<entry, parallel, args, module, disk, runPc, opts, num_instruments,
          num_samples, samplesQueried, nextVoice, jobs, handles, files, creates>>

inputs == <<entry, parallel, args, module, disk>>

Voices == 1..MaxVoices

\* The options main.rs hard-codes: 44100 Hz, stereo, 16 bit.
LegacyOptions(format) ==
    [format |-> format, sample_rate |-> LegacySampleRate, channels |-> 2,
     bit_depth |-> 16, resample |-> "Sinc", stereo_separation |-> 100]

NoOptions == LegacyOptions("none")

NoPath == [dir |-> "", base |-> "", label |-> "", ord |-> <<>>, ext |-> ""]

PendingJob ==
    [pc |-> "pending", index |-> 0, is_instrument |-> FALSE,
     options |-> NoOptions, h |-> 0, i |-> 0, count |-> 0,
     output_path |-> NoPath, samples |-> <<>>, all_audio |-> <<>>,
     total_duration |-> 0, reads |-> <<>>, positionQueries |-> 0, err |-> "",
     reported |-> FALSE]

\* Job positions in which the job function is executing.
ActivePcs == {"started", "loaded", "probed", "muting", "unmute", "rendering",
              "encoding", "writing", "written"}

Active(k) == jobs[k].pc \in ActivePcs

\* Faulty variant: the fallback to samples forgotten.
VoiceCountInstrumentsOnly == num_instruments

\* The voices main iterates over, and their kind.
VoiceCount == IF num_instruments > 0 THEN num_instruments ELSE num_samples

(* ------------------------------- inputs ------------------------------- *)
OutputDir == "out"

\* The base name handed to render_stem; main.rs derives the same from the
\* input path's file stem.
BaseName == "song"

FrameChoices == {0, 1, MonoSliceLen}

SongEntries == [frames : FrameChoices, pos : 0..MaxTime]

RECURSIVE SeqsUpTo(_, _)
SeqsUpTo(S, n) ==
    IF n = 0 THEN {<<>>}
    ELSE LET shorter == SeqsUpTo(S, n - 1) IN
         shorter \cup {Append(q, e) : q \in {x \in shorter : Len(x) = n - 1}, e \in S}

\* Every song of up to MaxChunks scripted reads.
AllSongs == SeqsUpTo(SongEntries, MaxChunks)

\* The songs the orchestration runs draw: empty, one full chunk that
\* reaches the end, a chunk short of the end followed by a last one.
FewSongs ==
    {<<>>,
     <<[frames |-> MonoSliceLen, pos |-> 1]>>,
     <<[frames |-> MonoSliceLen, pos |-> 0], [frames |-> 1, pos |-> 1]>>}

Modules(songs, durations, maxVoices) ==
    [loadable : BOOLEAN, interactive : BOOLEAN,
     num_instruments : 0..maxVoices, num_samples : 0..maxVoices,
     song : songs, duration : durations, endless : {FALSE}]

HealthyModules(songs, durations, maxVoices) ==
    {m \in Modules(songs, durations, maxVoices) : m.loadable /\ m.interactive}

\* At most one fault per run: the module does not load or lacks the
\* interactive interface, or one file-system operation fails.
FaultyModules(maxVoices) ==
    {m \in Modules({<<>>}, {1}, maxVoices) : m.loadable # m.interactive}

\* dirOk: create_dir_all succeeds; failOrd: the voice whose output file
\* cannot be created; openFailOrd: the voice for which main.rs's job cannot
\* re-open the input file (0: none).
EndlessSongs == {<<>>, <<[frames |-> 1, pos |-> 1]>>}

\* Engines that never return a zero-frame chunk: past its script each
\* read fills the buffer and moves the position on by one.
EndlessModules ==
    {[m EXCEPT !.endless = TRUE] :
        m \in {x \in HealthyModules(EndlessSongs, (-1)..MaxTime, 1) :
                  x.num_instruments + x.num_samples = 1}}

Disks == [dirOk : BOOLEAN, failOrd : 0..MaxVoices, openFailOrd : 0..MaxVoices]

GoodDisk == [dirOk |-> TRUE, failOrd |-> 0, openFailOrd |-> 0]

\* The number of file-system faults a disk holds.
DiskFaults(d) ==
    (IF d.dirOk THEN 0 ELSE 1) + (IF d.failOrd = 0 THEN 0 ELSE 1)
    + (IF d.openFailOrd = 0 THEN 0 ELSE 1)

CliArgs(formats, rates, channels, depths) ==
    [format : formats, sample_rate : rates, channels : channels,
     bit_depth : depths, resample : {"Sinc"}, stereo_separation : {100}]

LegacyArgs(formats) ==
    {[LegacyOptions(f) EXCEPT !.format = f] : f \in formats}

(* ---------------------------- initial state ---------------------------- *)
DefaultArgs ==
    [format |-> "wav", sample_rate |-> 44100, channels |-> 2, bit_depth |-> 16,
     resample |-> "Sinc", stereo_separation |-> 100]

FormatNames == {"wav", "WAV", "ogg", "vorbis", "opus", "flac", "mp3", "wave"}

Started ==
    /\ runPc = "start"
    /\ opts = NoOptions
    /\ num_instruments = 0
    /\ num_samples = 0
    /\ samplesQueried = FALSE
    /\ nextVoice = 1
    /\ jobs = [k \in Voices |-> PendingJob]
    /\ handles = <<>>
    /\ files = {}
    /\ creates = <<>>

\* src/main.rs on a module that loads: any format name.
InitLegacy ==
    /\ entry = "legacy"
    /\ parallel = FALSE
    /\ args \in LegacyArgs(FormatNames)
    /\ module \in HealthyModules(FewSongs, {1}, MaxVoices)
    /\ disk = GoodDisk

\* The front end, one job at a time: any options.
InitCliSequential ==
    /\ entry = "cli"
    /\ parallel = FALSE
    /\ args \in CliArgs(FormatNames, {8000, 44100, 48000}, {1, 2, 3}, {16, 24, 32})
    /\ module \in HealthyModules(FewSongs, {1}, MaxVoices)
    /\ disk = GoodDisk

\* The front end with --parallel.
InitCliParallel ==
    /\ entry = "cli"
    /\ parallel = TRUE
    /\ args \in CliArgs({"wav"}, {44100}, {2, 3}, {16})
    /\ module \in HealthyModules({<<[frames |-> MonoSliceLen, pos |-> 0],
                                    [frames |-> 1, pos |-> 1]>>}, {1}, MaxParVoices)
    /\ disk = GoodDisk

\* One fault: in the module or on the disk.
InitFaulty ==
    /\ entry \in {"legacy", "cli"}
    /\ parallel \in (IF entry = "cli" THEN BOOLEAN ELSE {FALSE})
    /\ args = DefaultArgs
    /\ \/ /\ module \in FaultyModules(MaxParVoices)
          /\ disk = GoodDisk
       \/ /\ module \in HealthyModules({<<>>}, {1},
                                       IF parallel THEN MaxParVoices ELSE MaxVoices)
          /\ disk \in Disks
          /\ DiskFaults(disk) = 1

Init ==
    /\ Started
    /\ InitLegacy \/ InitCliSequential \/ InitCliParallel \/ InitFaulty

\* One voice, every song: the render loop on its own.
InitRender ==
    /\ Started
    /\ entry \in {"legacy", "cli"}
    /\ parallel = FALSE
    /\ args \in (IF entry = "cli"
                 THEN CliArgs({"wav"}, {44100}, {1, 2}, {16})
                 ELSE LegacyArgs({"wav"}))
    /\ module \in {m \in HealthyModules(AllSongs, (-1)..MaxTime, 1) :
                       m.num_instruments + m.num_samples = 1}
    /\ disk = GoodDisk

\* Runs of one voice for the loop's termination: engines that end with a
\* zero-frame chunk, whatever positions they report, and endless ones.
LiveEntries == [frames : {0, MonoSliceLen}, pos : {0, MaxTime}]

InitLive ==
    /\ Started
    /\ entry \in {"legacy", "cli"}
    /\ parallel = FALSE
    /\ args \in (IF entry = "cli"
                 THEN CliArgs({"wav"}, {44100}, {1, 2}, {16})
                 ELSE LegacyArgs({"wav"}))
    /\ module \in {m \in HealthyModules(SeqsUpTo(LiveEntries, MaxChunks),
                                         (-1)..(MaxTime + 1), 1) :
                       m.num_instruments + m.num_samples = 1}
                  \cup EndlessModules
    /\ disk = GoodDisk

(* ------------------- the library, called directly --------------------- *)
\* Sample values a buffer handed to write_audio_file holds: the ends and
\* the middle of the 16-bit range.
SampleChoices == {-32768, -1, 0, 1, 32767}

\* Lengths of such buffers: around one and two 20 ms frames of the Opus
\* rates and channel counts drawn below.
BufferLens == {1, 160, 320, 321, 960, 1920, 1921, 3840}

PcmBuffers ==
    {<<>>}
    \cup {<<<<v, n>>>> : v \in SampleChoices, n \in BufferLens}
    \cup {<<<<32767, n>>, <<-32768, m>>>> : n \in {1, 1919}, m \in {1, 1921}}

\* ExportOptions as a caller of the library may build them.
LibOptions(formats, rates, channels, depths) ==
    [format : formats, sample_rate : rates, channels : channels,
     bit_depth : depths, resample : {"Sinc"}, stereo_separation : {100}]

\* A module for calls that load none.
NoModule ==
    [loadable |-> FALSE, interactive |-> FALSE, num_instruments |-> 0,
     num_samples |-> 0, song |-> <<>>, duration |-> 0, endless |-> FALSE]

\* render_stem(buffer, index, is_instrument, output_dir, base_name, options, None)
\* as entered: the options copied and corrected.
render_stem_entered(index, is_instrument, options) ==
    [PendingJob EXCEPT !.pc = "started", !.index = index,
                       !.is_instrument = is_instrument,
                       !.options = corrected_options(options)]

\* write_audio_file(samples, filename, options) as entered.
write_audio_file_entered(samples, filename, options) ==
    [PendingJob EXCEPT !.pc = "encoding", !.options = options,
                       !.all_audio = samples, !.output_path = filename]

\* No orchestrator: one call of a public function of the library, as job 1.
LibCall(job) ==
    /\ entry = "cli"
    /\ parallel = FALSE
    /\ args = DefaultArgs
    /\ runPc = "lib"
    /\ num_instruments = 0
    /\ num_samples = 0
    /\ samplesQueried = FALSE
    /\ nextVoice = 1
    /\ jobs = [k \in Voices |-> IF k = 1 THEN job ELSE PendingJob]
    /\ handles = <<>>
    /\ creates = <<>>

\* render_stem on any bytes, with any index, of either kind.
RenderConfigs == {<<"Nearest", 0>>, <<"Linear", 200>>, <<"Cubic", 50>>}

InitRenderStem ==
    /\ opts \in LibOptions({"Wav"}, {44100}, {1, 2, 3}, {16})
                \cup LibOptions({"Opus"}, {44100}, {2}, {16})
                \cup {[DefaultArgs EXCEPT !.format = "Wav", !.resample = c[1],
                                          !.stereo_separation = c[2]] :
                          c \in RenderConfigs}
    /\ module \in Modules(FewSongs, {1}, MaxParVoices)
    /\ disk \in {d \in Disks : d.dirOk /\ d.openFailOrd = 0 /\ d.failOrd \in {0, 1}}
    /\ files = {}
    /\ \E index \in (-1)..MaxParVoices, is_instrument \in BOOLEAN :
          LibCall(render_stem_entered(index, is_instrument, opts))

\* What a file left at the destination by an earlier run holds.
OldBody ==
    [container |-> "old", channels |-> 2, sample_rate |-> 44100, bits |-> 16,
     pre_skip |-> 0, shift |-> 0, pcm |-> <<<<7, 1>>>>, packets |-> <<>>,
     granule_pos |-> 0, complete |-> TRUE]

\* write_audio_file on any buffer, with any options, the destination
\* absent or left by an earlier run.
InitWriteAudioFile ==
    /\ opts \in LibOptions({"Wav", "Vorbis", "Opus", "Flac"}, {8000, 44100, 48000},
                            {1, 2, 3, 65537}, {16, 24})
    /\ module = NoModule
    /\ disk = GoodDisk
    /\ \E samples \in PcmBuffers :
          LET filename == output_path(OutputDir, BaseName, "sample", 1,
                                      ext_str(opts.format))
          IN  /\ files \in {{}, {[path |-> filename, body |-> OldBody]}}
              /\ LibCall(write_audio_file_entered(samples, filename, opts))

InitLib == InitRenderStem \/ InitWriteAudioFile

\* Pairs of voice indices around the widths of the ordinal: two, three,
\* four and five digits.
IndexPairs ==
    {<<98, 99>>, <<99, 999>>, <<998, 999>>, <<999, 1000>>, <<0, 1000>>,
     <<999, 9999>>, <<9998, 9999>>}

\* render_stem called twice at once, for two voices, on the same bytes.
InitRenderStemPair ==
    /\ entry = "cli"
    /\ parallel = TRUE
    /\ args = DefaultArgs
    /\ opts = [DefaultArgs EXCEPT !.format = "Wav"]
    /\ module \in {m \in HealthyModules({<<[frames |-> 1, pos |-> 1]>>}, {1}, 1) :
                       m.num_instruments = 1 /\ m.num_samples = 0}
    /\ disk = GoodDisk
    /\ runPc = "lib"
    /\ num_instruments = 0
    /\ num_samples = 0
    /\ samplesQueried = FALSE
    /\ nextVoice = 1
    /\ \E p \in IndexPairs :
          jobs = [k \in Voices |->
                     IF k <= 2 THEN render_stem_entered(p[k], TRUE, opts)
                     ELSE PendingJob]
    /\ handles = <<>>
    /\ files = {}
    /\ creates = <<>>

(* --------------------------- the orchestrator -------------------------- *)
\* Faulty variant: the options are not validated.
OptionsUnchecked(a) == TRUE

\* The front end's option check: channels 1 or 2, bit depth 16 or 24.
OptionsValid(a) == a.channels \in {1, 2} /\ a.bit_depth \in {16, 24}

\* main, up to the creation of the output directory: the format name is
\* checked (and, in the front end, parsed, with the other options).
ParseArgs ==
    /\ runPc = "start"
    /\ IF entry = "legacy"
       THEN /\ runPc' = IF legacy_format_ok(args.format) THEN "args_ok" ELSE "failed"
            /\ opts' = LegacyOptions(args.format)
       ELSE /\ runPc' = IF from_str(args.format) # "Err" /\ OptionsValid(args)
                        THEN "args_ok" ELSE "failed"
            /\ opts' = [args EXCEPT !.format = from_str(args.format)]
    /\ UNCHANGED <<inputs, num_instruments, num_samples, samplesQueried,
                   nextVoice, jobs, handles, files, creates>>

\* fs::create_dir_all(&args.output_dir)?
CreateOutputDir ==
    /\ runPc = "args_ok"
    /\ runPc' = IF disk.dirOk THEN "dir_ok" ELSE "failed"
    /\ UNCHANGED <<inputs, opts, num_instruments, num_samples, samplesQueried,
                   nextVoice, jobs, handles, files, creates>>

\* Faulty variant: both counts are always asked for.
CountVoicesBoth ==
    /\ runPc = "dir_ok"
    /\ IF module.loadable
       THEN /\ runPc' = "jobs"
            /\ handles' = Append(handles, NewHandle(module, 0))
            /\ num_instruments' = module.num_instruments
            /\ num_samples' = module.num_samples
            /\ samplesQueried' = TRUE
       ELSE /\ runPc' = "failed"
            /\ UNCHANGED <<handles, num_instruments, num_samples, samplesQueried>>
    /\ UNCHANGED <<inputs, opts, nextVoice, jobs, files, creates>>

\* load_module_from_file(&args.input)?, then the two voice counts: the
\* sample count is asked for only when there are no instruments.
CountVoices ==
    /\ runPc = "dir_ok"
    /\ IF module.loadable
       THEN /\ runPc' = "jobs"
            /\ handles' = Append(handles, NewHandle(module, 0))
            /\ num_instruments' = module.num_instruments
            /\ num_samples' = IF module.num_instruments = 0
                              THEN module.num_samples ELSE 0
            /\ samplesQueried' = (module.num_instruments = 0)
       ELSE /\ runPc' = "failed"
            /\ UNCHANGED <<handles, num_instruments, num_samples, samplesQueried>>
    /\ UNCHANGED <<inputs, opts, nextVoice, jobs, files, creates>>

\* Faulty variant: the index is taken from a shared count of finished jobs.
CalledJobByFinished(k) ==
    LET finished == Cardinality({o \in Voices : jobs[o].pc = "done"}) IN
    [PendingJob EXCEPT
        !.pc = "started",
        !.index = IF entry = "legacy" THEN finished + 1 ELSE finished,
        !.is_instrument = num_instruments > 0,
        !.options = IF entry = "legacy" THEN opts ELSE corrected_options(opts)]

\* The job of 1-based voice k as it is called: render_instrument_stem /
\* render_sample_stem get the 1-based i, render_stem the 0-based index and
\* its own corrected copy of the options.
CalledJob(k) ==
    [PendingJob EXCEPT
        !.pc = "started",
        !.index = IF entry = "legacy" THEN k ELSE k - 1,
        !.is_instrument = num_instruments > 0,
        !.options = IF entry = "legacy" THEN opts ELSE corrected_options(opts)]

\* Faulty variant: the next call is made without waiting for the last.
DispatchSequentialEager ==
    /\ runPc = "jobs"
    /\ ~parallel
    /\ nextVoice <= VoiceCount
    /\ \A k \in Voices : jobs[k].pc \notin {"failed", "panicked"}
    /\ jobs' = [jobs EXCEPT ![nextVoice] = CalledJob(nextVoice)]
    /\ nextVoice' = nextVoice + 1
    /\ UNCHANGED <<inputs, runPc, opts, num_instruments, num_samples,
                   samplesQueried, handles, files, creates>>

\* Faulty variant: a failed job is skipped and the loop goes on.
DispatchSequentialSkipFailed ==
    /\ runPc = "jobs"
    /\ ~parallel
    /\ nextVoice <= VoiceCount
    /\ \A k \in 1..(nextVoice - 1) : jobs[k].pc \in {"done", "failed"}
    /\ jobs' = [jobs EXCEPT ![nextVoice] = CalledJob(nextVoice)]
    /\ nextVoice' = nextVoice + 1
    /\ UNCHANGED <<inputs, runPc, opts, num_instruments, num_samples,
                   samplesQueried, handles, files, creates>>

\* for i in 1..=n { render_..._stem(.., i, ..)?; }: the next call, made once
\* every earlier one has returned Ok.
DispatchSequential ==
    /\ runPc = "jobs"
    /\ ~parallel
    /\ nextVoice <= VoiceCount
    /\ \A k \in 1..(nextVoice - 1) : jobs[k].pc = "done"
    /\ jobs' = [jobs EXCEPT ![nextVoice] = CalledJob(nextVoice)]
    /\ nextVoice' = nextVoice + 1
    /\ UNCHANGED <<inputs, runPc, opts, num_instruments, num_samples,
                   samplesQueried, handles, files, creates>>

\* Parallel mode: a worker picks up any voice not yet started, unless a
\* job has already failed.
DispatchParallel(k) ==
    /\ runPc = "jobs"
    /\ parallel
    /\ k <= VoiceCount
    /\ jobs[k].pc = "pending"
    /\ \A o \in Voices : jobs[o].pc \notin {"failed", "panicked"}
    /\ jobs' = [jobs EXCEPT ![k] = CalledJob(k)]
    /\ UNCHANGED <<inputs, runPc, opts, num_instruments, num_samples,
                   samplesQueried, nextVoice, handles, files, creates>>

\* The orchestrator's own handle is dropped when main returns.
DropMainHandle == [handles EXCEPT ![1].alive = FALSE]

\* Ok(()) at the end of main: every voice's job returned Ok.
RunSucceeds ==
    /\ runPc = "jobs"
    /\ \A k \in 1..VoiceCount : jobs[k].pc = "done"
    /\ runPc' = "ok"
    /\ handles' = DropMainHandle
    /\ UNCHANGED <<inputs, opts, num_instruments, num_samples, samplesQueried,
                   nextVoice, jobs, files, creates>>

\* The `?` after a job: its error ends the run, once no job is running.
RunFails ==
    /\ runPc = "jobs"
    /\ \E k \in Voices : jobs[k].pc \in {"failed", "panicked"}
    /\ \A k \in Voices : ~Active(k)
    /\ runPc' = "failed"
    /\ handles' = DropMainHandle
    /\ UNCHANGED <<inputs, opts, num_instruments, num_samples, samplesQueried,
                   nextVoice, jobs, files, creates>>

(* ------------------------------ a stem job ----------------------------- *)
\* The handle a call on it by `user` leaves: the model notes who used it.
Use(h, user) == [h EXCEPT !.users = @ \cup {user}]

\* Faulty variant: the handle outlives the job function.
Leaked(hs, j) == hs

\* The job's handle dropped, if it has one (ModuleExt's Drop).
Dropped(hs, j) ==
    IF j.h = 0 THEN hs ELSE [hs EXCEPT ![j.h].alive = FALSE]

\* The job function returns Err(err): its locals are dropped.
Failed(k, err) ==
    /\ jobs' = [jobs EXCEPT ![k].pc = "failed", ![k].err = err]
    /\ handles' = Dropped(handles, jobs[k])

\* Faulty variant: the job reuses the handle the orchestrator loaded.
SharedHandleId(hs) == 1

\* The id under which a job keeps the handle it has just loaded: the new
\* entry of `handles`.
LoadedHandleId(hs) == Len(hs) + 1

\* ModuleExt::from_memory(buffer, ..): each job loads a handle of its own
\* from the module bytes, which main.rs's job first reads from the input
\* file again.
LoadModule(k) ==
    /\ jobs[k].pc = "started"
    /\ IF entry = "legacy" /\ disk.openFailOrd = k
       THEN Failed(k, "cannot open input file")
       ELSE IF module.loadable
       THEN /\ handles' = Append(handles, NewHandle(module, k))
            /\ jobs' = [jobs EXCEPT ![k].pc = "loaded",
                                    ![k].h = LoadedHandleId(handles)]
       ELSE Failed(k, "Failed to load module")
    /\ UNCHANGED <<inputs, runPc, opts, num_instruments, num_samples,
                   samplesQueried, nextVoice, files, creates>>

\* Faulty variant: the absence of the interface is not looked at.
ProbeInteractiveUnchecked(k) ==
    /\ jobs[k].pc = "loaded"
    /\ jobs' = [jobs EXCEPT ![k].pc = "probed"]
    /\ handles' = [handles EXCEPT ![jobs[k].h] = Use(@, k)]
    /\ UNCHANGED <<inputs, runPc, opts, num_instruments, num_samples,
                   samplesQueried, nextVoice, files, creates>>

\* module_ext.get_interactive_interface().ok_or_else(..)?
ProbeInteractive(k) ==
    /\ jobs[k].pc = "loaded"
    /\ IF module.interactive
       THEN /\ jobs' = [jobs EXCEPT ![k].pc = "probed"]
            /\ handles' = [handles EXCEPT ![jobs[k].h] = Use(@, k)]
       ELSE Failed(k, "Interactive interface not available")
    /\ UNCHANGED <<inputs, runPc, opts, num_instruments, num_samples,
                   samplesQueried, nextVoice, files, creates>>

\* The handle after render_stem's two set_render_* calls.
configure_render(h, options) ==
    [h EXCEPT !.filter = to_openmpt_filter_length(options.resample),
              !.separation = options.stereo_separation,
              !.configured = @ + 1]

\* get_module(), the render configuration (render_stem only) and the voice
\* count of the job's kind.
Configure(k) ==
    LET j == jobs[k] IN
    /\ j.pc = "probed"
    /\ handles' = [handles EXCEPT ![j.h] =
                       Use(IF entry = "cli" THEN configure_render(@, j.options)
                           ELSE @, k)]
    /\ jobs' = [jobs EXCEPT ![k].pc = "muting", ![k].i = 0,
                            ![k].count = IF j.is_instrument
                                         THEN module.num_instruments
                                         ELSE module.num_samples]
    /\ UNCHANGED <<inputs, runPc, opts, num_instruments, num_samples,
                   samplesQueried, nextVoice, files, creates>>

\* Faulty variant: the comparison inverted, so that only the target is muted.
MuteFlagInverted(i, index) == IF entry = "legacy" THEN TRUE ELSE i = index

\* The flag the mute loop passes for voice i: render_stem mutes all but the
\* target, main.rs mutes all (and unmutes the target afterwards).
MuteFlag(i, index) == IF entry = "legacy" THEN TRUE ELSE i # index

\* One iteration of `for i in 0..count { set_instrument_mute_status(..) }`.
MuteStep(k) ==
    LET j == jobs[k] IN
    /\ j.pc = "muting"
    /\ j.i < j.count
    /\ handles' = [handles EXCEPT ![j.h] =
                       Use(set_instrument_mute_status(@, j.i, MuteFlag(j.i, j.index)), k)]
    /\ jobs' = [jobs EXCEPT ![k].i = @ + 1]
    /\ UNCHANGED <<inputs, runPc, opts, num_instruments, num_samples,
                   samplesQueried, nextVoice, files, creates>>

\* Faulty variant: render_stem names its 0-based index.
JobPathZeroBased(j) ==
    output_path(OutputDir, BaseName, type_label(j.is_instrument), j.index,
                IF entry = "legacy" THEN j.options.format ELSE ext_str(j.options.format))

\* The output path of the job: render_stem names index + 1 and the
\* format's extension, main.rs names its 1-based index and the format name.
JobPath(j) ==
    IF entry = "legacy"
    THEN output_path(OutputDir, BaseName, type_label(j.is_instrument), j.index,
                     j.options.format)
    ELSE output_path(OutputDir, BaseName, type_label(j.is_instrument), j.index + 1,
                     ext_str(j.options.format))

\* vec![0i16; N]: the chunk buffer as allocated.
NewBuffer == <<<<0, IF entry = "legacy" THEN LegacyBufferLen ELSE ChunkBufferLen>>>>

\* Faulty variant: the render loop is skipped.
ReadyToEncode(j) ==
    [j EXCEPT !.pc = "encoding", !.output_path = JobPath(j),
              !.samples = NewBuffer, !.all_audio = <<>>,
              !.total_duration = module.duration]

\* The job's locals set between the mute step and the render loop.
ReadyToRender(j) ==
    [j EXCEPT !.pc = "rendering", !.output_path = JobPath(j),
              !.samples = NewBuffer, !.all_audio = <<>>,
              !.total_duration = module.duration]

\* The end of the mute loop: render_stem goes on to the render loop,
\* main.rs has the target still to unmute.
MuteExit(k) ==
    LET j == jobs[k] IN
    /\ j.pc = "muting"
    /\ j.i >= j.count
    /\ jobs' = [jobs EXCEPT ![k] = IF entry = "legacy"
                                   THEN [j EXCEPT !.pc = "unmute"]
                                   ELSE ReadyToRender(j)]
    /\ UNCHANGED <<inputs, runPc, opts, num_instruments, num_samples,
                   samplesQueried, nextVoice, handles, files, creates>>

\* interactive.set_instrument_mute_status(&module_ext, index - 1, false)
UnmuteTarget(k) ==
    LET j == jobs[k] IN
    /\ j.pc = "unmute"
    /\ handles' = [handles EXCEPT ![j.h] =
                       Use(set_instrument_mute_status(@, j.index - 1, FALSE), k)]
    /\ jobs' = [jobs EXCEPT ![k] = ReadyToRender(j)]
    /\ UNCHANGED <<inputs, runPc, opts, num_instruments, num_samples,
                   samplesQueried, nextVoice, files, creates>>

(* ----------------------------- render loop ----------------------------- *)
\* Whether the job reads interleaved stereo (else mono).
ReadsStereo(j) == entry = "legacy" \/ j.options.channels = 2

\* The channel count the copy multiplies by.
CopyChannels(j) == IF entry = "legacy" THEN 2 ELSE j.options.channels

\* `rendered`: the frames the job's next read returns.
Rendered(j, h) ==
    IF ReadsStereo(j)
    THEN read_interleaved_stereo(module, h, RunsLen(j.samples))
    ELSE read_mono(module, h, MonoSliceLen)

\* num_samples_to_copy = rendered * channels
num_samples_to_copy(rendered, channels) == rendered * channels

\* Faulty variant: the whole chunk buffer is appended.
extend_from_buffer(all_audio, samples, n) == RunsConcat(all_audio, samples)

\* all_audio.extend_from_slice(&samples[..n])
extend_from_slice(all_audio, samples, n) == RunsConcat(all_audio, RunsTake(samples, n))

\* Faulty variant: a strict comparison.
SongEndedStrict(position, total_duration) == position > total_duration

\* Faulty variant: the position is not compared with the duration.
SongEndedNever(position, total_duration) == FALSE

\* The loop's second exit: current_position >= total_duration.
SongEnded(position, total_duration) == position >= total_duration

\* Faulty variant: a loop that ends with nothing captured ends the job.
LoopExitChecked(all_audio) == IF all_audio = <<>> THEN "failed" ELSE "encoding"

\* Where the job goes when its loop ends: to write_audio_file, whatever
\* was captured.
LoopExit(all_audio) == "encoding"

\* What a read request was made with, kept for the record.
ReadRecord(j, h, rendered) ==
    [rate |-> j.options.sample_rate, stereo |-> ReadsStereo(j), mute |-> h.mute,
     filter |-> h.filter, separation |-> h.separation, rendered |-> rendered,
     before |-> RunsLen(j.all_audio), after |-> AfterRead(module, h).position]

\* One iteration of the render loop: read a chunk; stop on zero frames;
\* append the rendered prefix; stop once the position reached the duration.
RenderChunk(k) ==
    LET j == jobs[k]
        h == handles[j.h]
        rendered == Rendered(j, h)
        h2 == Use(AfterRead(module, h), k)
        written == rendered * (IF ReadsStereo(j) THEN 2 ELSE 1)
        samples2 == BufferWrite(j.samples, h2.cursor, written)
        n == num_samples_to_copy(rendered, CopyChannels(j))
        j2 == [j EXCEPT !.samples = samples2,
                        !.reads = Append(@, ReadRecord(j, h, rendered))]
    IN
    /\ j.pc = "rendering"
    /\ Len(j.reads) < MaxReads
    /\ IF rendered = 0
       THEN /\ jobs' = [jobs EXCEPT ![k] = [j2 EXCEPT !.pc = LoopExit(j.all_audio)]]
            /\ handles' = [handles EXCEPT ![j.h] = h2]
       ELSE IF n > RunsLen(samples2)
       THEN \* &samples[..n] out of range: the job panics and unwinds
            /\ jobs' = [jobs EXCEPT ![k] = [j2 EXCEPT !.pc = "panicked"]]
            /\ handles' = [handles EXCEPT ![j.h] = [h2 EXCEPT !.alive = FALSE]]
       ELSE /\ jobs' = [jobs EXCEPT ![k] =
                          [j2 EXCEPT !.all_audio = extend_from_slice(@, samples2, n),
                                     !.positionQueries = @ + 1,
                                     !.pc = IF SongEnded(h2.position, j.total_duration)
                                            THEN LoopExit(extend_from_slice(
                                                              j.all_audio, samples2, n))
                                            ELSE "rendering"]]
            /\ handles' = [handles EXCEPT ![j.h] = h2]
    /\ UNCHANGED <<inputs, runPc, opts, num_instruments, num_samples,
                   samplesQueried, nextVoice, files, creates>>

(* ------------------------------- encoders ------------------------------ *)
\* The error an encoder returns before it opens the file, "" if none:
\* write_opus_file rejects the channel count and the sample rate.
EncoderError(options) ==
    IF entry = "cli" /\ options.format = "Opus"
    THEN IF options.channels \notin {1, 2} THEN "Opus only supports 1 or 2 channels"
         ELSE IF options.sample_rate \notin OpusRates
              THEN "Opus only supports 8, 12, 16, 24, or 48 kHz"
              ELSE ""
    ELSE IF entry = "legacy" /\ ~legacy_format_ok(options.format)
         THEN "Unsupported format"
         ELSE ""

\* The container a format is written as.
Container(options) ==
    IF entry = "legacy"
    THEN CASE options.format = "wav" -> "wav"
           [] options.format = "vorbis" -> "ogg-stub"
           [] options.format = "opus" -> "opus-stub"
           [] options.format = "flac" -> "flac-stub"
    ELSE CASE options.format = "Wav" -> "wav"
           [] options.format = "Vorbis" -> "ogg-stub"
           [] options.format = "Opus" -> "opus"
           [] options.format = "Flac" -> "flac-stub"

\* x as a signed integer of w bits (two's complement).
Wrap(x, w) == ((x + 2^(w - 1)) % 2^w) - 2^(w - 1)

\* Faulty variant: the sample is written as it is.
write_sample_unshifted(options, sample) == sample

\* The value write_wav_file hands to the writer for one sample:
\* (sample as i32) << 8 for a bit depth of 24, of which the writer keeps
\* the low 24 bits; the sample itself otherwise.
write_sample(options, sample) ==
    IF options.bit_depth = 24 THEN Wrap(sample * 256, 24) ELSE sample

\* The values written for a PCM buffer, in order: write_wav_file's loop,
\* and the raw little-endian samples of the other writers.
WrittenSamples(options, pcm) ==
    IF entry = "cli" /\ options.format = "Wav"
    THEN [i \in 1..Len(pcm) |-> <<write_sample(options, pcm[i][1]), pcm[i][2]>>]
    ELSE pcm

\* The OpusHead and OpusTags packets, written with granule position 0.
HeaderPackets ==
    <<[kind |-> "OpusHead", input |-> <<>>, data |-> <<>>, granule |-> 0],
      [kind |-> "OpusTags", input |-> <<>>, data |-> <<>>, granule |-> 0]>>

\* frame_size = rate / 50 (20 ms)
frame_size(rate) == rate \div 50

\* Faulty variant: the frame length is not multiplied by the channel count.
samples_per_frame_mono(options) == frame_size(options.sample_rate)

\* samples_per_frame = frame_size * channels
samples_per_frame(options) == frame_size(options.sample_rate) * options.channels

\* granule_mult = 48000 / rate
granule_mult(rate) == 48000 \div rate

\* The input samples the audio packets written so far have consumed.
RECURSIVE PacketInput(_)
PacketInput(packets) ==
    IF packets = <<>> THEN <<>>
    ELSE RunsConcat(PacketInput(SubSeq(packets, 1, Len(packets) - 1)),
                    packets[Len(packets)].input)

\* chunk with zeros appended up to n samples (Vec::resize(n, 0)).
resize(chunk, n) == RunsAppend(chunk, 0, n - RunsLen(chunk))

\* Faulty variant: every packet advances by a whole frame, padding included.
granule_step_padded(chunk_len, options) ==
    frame_size(options.sample_rate) * granule_mult(options.sample_rate)

\* (chunk.len() / channels) * granule_mult: what a packet adds to the
\* granule position.
granule_step(chunk_len, options) ==
    (chunk_len \div options.channels) * granule_mult(options.sample_rate)

\* Faulty variant: every header declares stereo, 16 bit.
FileHeaderFixed(options) ==
    [container |-> Container(options), channels |-> 2,
     sample_rate |-> options.sample_rate, bits |-> 16,
     pre_skip |-> IF Container(options) = "opus" THEN PreSkip % 65536 ELSE 0,
     shift |-> 0, pcm |-> <<>>,
     packets |-> IF Container(options) = "opus" THEN HeaderPackets ELSE <<>>,
     granule_pos |-> IF Container(options) = "opus" THEN PreSkip ELSE 0,
     complete |-> FALSE]

\* The file as it stands once created and its header written: the WavSpec
\* (channels and bits narrowed to u16), the OpusHead (channels narrowed to
\* u8, pre-skip to u16).  main.rs's writers declare stereo, 16 bit, and an
\* Opus pre-skip of 0.
FileHeader(options) ==
    LET c == Container(options) IN
    [container |-> c,
     channels |-> IF entry = "legacy" THEN 2
                  ELSE IF c = "wav" THEN options.channels % 65536
                  ELSE options.channels % 256,
     sample_rate |-> options.sample_rate,
     bits |-> IF entry = "legacy" THEN 16 ELSE options.bit_depth % 65536,
     pre_skip |-> IF c = "opus" THEN PreSkip % 65536 ELSE 0,
     shift |-> 0, pcm |-> <<>>,
     packets |-> IF c = "opus" THEN HeaderPackets ELSE <<>>,
     granule_pos |-> IF c = "opus" THEN PreSkip ELSE 0,
     complete |-> FALSE]

\* The PCM an encoder consumes: main.rs's WAV writer takes whole stereo
\* pairs (chunks_exact(2)), every other writer all samples.
Payload(options, all_audio) ==
    IF entry = "legacy" /\ options.format = "wav"
    THEN RunsTake(all_audio, 2 * (RunsLen(all_audio) \div 2))
    ELSE all_audio

\* write_wav_file shifts each sample left by 8 for a bit depth of 24.
SampleShift(options) ==
    IF entry = "cli" /\ options.format = "Wav" /\ options.bit_depth = 24
    THEN 8 ELSE 0

\* File::create / WavWriter::create: a new file, or an existing one cut to
\* its new header.
FileCreate(fs, path, body) ==
    {f \in fs : f.path # path} \cup {[path |-> path, body |-> body]}

\* Faulty variant: the file is created before the configuration is checked.
FilesCreatedOnReject(fs, path, options) == FileCreate(fs, path, FileHeader(options))

\* The files after an encoder rejected its configuration: write_opus_file
\* returns before File::create.
FilesOnReject(fs, path, options) == fs

\* write_audio_file (main.rs: the match on format), up to the file being
\* open with its header: the encoder's own validation comes first.
OpenOutput(k) ==
    LET j == jobs[k] IN
    /\ j.pc = "encoding"
    /\ IF EncoderError(j.options) # ""
       THEN /\ Failed(k, EncoderError(j.options))
            /\ files' = FilesOnReject(files, j.output_path, j.options)
            /\ UNCHANGED creates
       ELSE IF disk.failOrd = k
       THEN /\ Failed(k, "cannot create file")
            /\ UNCHANGED <<files, creates>>
       ELSE /\ files' = FileCreate(files, j.output_path, FileHeader(j.options))
            /\ creates' = Append(creates, [job |-> k, path |-> j.output_path])
            /\ jobs' = [jobs EXCEPT ![k].pc = "writing"]
            /\ UNCHANGED handles
    /\ UNCHANGED <<inputs, runPc, opts, num_instruments, num_samples,
                   samplesQueried, nextVoice>>

\* The file a job has open.
OpenFile(j) == CHOOSE f \in files : f.path = j.output_path

\* The PCM write_opus_file's loop has still to consume.
Remaining(j) ==
    RunsDrop(j.all_audio, RunsLen(PacketInput(OpenFile(j).body.packets)))

\* Whether the job's encoder writes Ogg Opus packets.
WritesPackets(j) == entry = "cli" /\ j.options.format = "Opus"

\* One iteration of `for chunk in samples.chunks(samples_per_frame)`: a
\* short last chunk is padded with zeros, the frame encoded, the granule
\* position advanced and the packet written.
WritePacket(k) ==
    LET j == jobs[k]
        rest == Remaining(j)
        spf == samples_per_frame(j.options)
        chunk == RunsTake(rest, Min(spf, RunsLen(rest)))
        frame == IF RunsLen(chunk) < spf THEN resize(chunk, spf) ELSE chunk
        body == OpenFile(j).body
        granule_pos == body.granule_pos + granule_step(RunsLen(chunk), j.options)
    IN
    /\ j.pc = "writing"
    /\ WritesPackets(j)
    /\ RunsLen(rest) > 0
    /\ files' = {IF f.path = j.output_path
                 THEN [f EXCEPT !.body.packets =
                                    Append(@, [kind |-> "audio", input |-> chunk,
                                               data |-> frame, granule |-> granule_pos]),
                                !.body.granule_pos = granule_pos]
                 ELSE f : f \in files}
    /\ UNCHANGED <<inputs, runPc, opts, num_instruments, num_samples,
                   samplesQueried, nextVoice, jobs, handles, creates>>

\* The samples written and the file finalized; for Ogg Opus, the end of
\* the packet loop.
WriteOutput(k) ==
    LET j == jobs[k] IN
    /\ j.pc = "writing"
    /\ WritesPackets(j) => RunsLen(Remaining(j)) = 0
    /\ files' = {IF f.path = j.output_path
                 THEN [f EXCEPT !.body.pcm =
                                    IF WritesPackets(j) THEN <<>>
                                    ELSE WrittenSamples(j.options,
                                                        Payload(j.options, j.all_audio)),
                                !.body.shift = SampleShift(j.options),
                                !.body.complete = TRUE]
                 ELSE f : f \in files}
    /\ jobs' = [jobs EXCEPT ![k].pc = "written"]
    /\ UNCHANGED <<inputs, runPc, opts, num_instruments, num_samples,
                   samplesQueried, nextVoice, handles, creates>>

\* The completion report ("Saved ..", "Successfully rendered ..") and
\* Ok(()) at the end of the job function: module_ext goes out of scope.
ReturnOk(k) ==
    /\ jobs[k].pc = "written"
    /\ jobs' = [jobs EXCEPT ![k].pc = "done", ![k].reported = TRUE]
    /\ handles' = Dropped(handles, jobs[k])
    /\ UNCHANGED <<inputs, runPc, opts, num_instruments, num_samples,
                   samplesQueried, nextVoice, files, creates>>

(* ---------------------------- specification ---------------------------- *)
Next ==
    \/ ParseArgs
    \/ CreateOutputDir
    \/ CountVoices
    \/ DispatchSequential
    \/ \E k \in Voices : DispatchParallel(k)
    \/ RunSucceeds
    \/ RunFails
    \/ \E k \in Voices : LoadModule(k)
    \/ \E k \in Voices : ProbeInteractive(k)
    \/ \E k \in Voices : Configure(k)
    \/ \E k \in Voices : MuteStep(k)
    \/ \E k \in Voices : MuteExit(k)
    \/ \E k \in Voices : UnmuteTarget(k)
    \/ \E k \in Voices : RenderChunk(k)
    \/ \E k \in Voices : OpenOutput(k)
    \/ \E k \in Voices : WritePacket(k)
    \/ \E k \in Voices : WriteOutput(k)
    \/ \E k \in Voices : ReturnOk(k)

Spec == Init /\ [][Next]_vars

\* A run of one job: the steps a healthy sequential run takes.
RenderNext ==
    \/ ParseArgs
    \/ CreateOutputDir
    \/ CountVoices
    \/ DispatchSequential
    \/ RunSucceeds
    \/ \E k \in Voices : LoadModule(k)
    \/ \E k \in Voices : ProbeInteractive(k)
    \/ \E k \in Voices : Configure(k)
    \/ \E k \in Voices : MuteStep(k)
    \/ \E k \in Voices : MuteExit(k)
    \/ \E k \in Voices : UnmuteTarget(k)
    \/ \E k \in Voices : RenderChunk(k)
    \/ \E k \in Voices : OpenOutput(k)
    \/ \E k \in Voices : WriteOutput(k)
    \/ \E k \in Voices : ReturnOk(k)

RenderSpec == InitRender /\ [][RenderNext]_vars

\* The same steps, each eventually taken when it can be: a job is
\* straight-line code on one thread.
LiveSpec == InitLive /\ [][RenderNext]_vars /\ WF_vars(RenderNext)

\* The library's public functions, each called on its own.
LibNext ==
    \/ \E k \in Voices : LoadModule(k)
    \/ \E k \in Voices : ProbeInteractive(k)
    \/ \E k \in Voices : Configure(k)
    \/ \E k \in Voices : MuteStep(k)
    \/ \E k \in Voices : MuteExit(k)
    \/ \E k \in Voices : RenderChunk(k)
    \/ \E k \in Voices : OpenOutput(k)
    \/ \E k \in Voices : WritePacket(k)
    \/ \E k \in Voices : WriteOutput(k)
    \/ \E k \in Voices : ReturnOk(k)

LibSpec == InitLib /\ [][LibNext]_vars

\* Runs with one fault, and render_stem called directly.
InitFault == (Started /\ InitFaulty) \/ InitRenderStem \/ InitRenderStemPair

FaultSpec == InitFault /\ [][Next]_vars

(* ------------------------------ properties ----------------------------- *)
\* The 0-based voice a job is to isolate.
Target(j) == IF entry = "legacy" THEN j.index - 1 ELSE j.index

\* The job has left its mute step (the mute loop and, in main.rs, the
\* unmute that follows it).
MuteFinished(j) == j.output_path # NoPath

\* The voices a mute mask leaves audible.
Unmuted(mask) == {v \in DOMAIN mask : ~mask[v]}

\* The voice count of the kind main selects for the module.
ModuleVoices ==
    IF module.num_instruments > 0 THEN module.num_instruments ELSE module.num_samples

\* C1 (isolation postcondition): once a job with an in-range target t has
\* finished its mute step, every voice v in [0, count) is muted iff v # t,
\* and every read request the job makes is made under exactly that mask.
C1_IsolationPostcondition ==
    \A k \in Voices :
        LET j == jobs[k]
            t == Target(j)
            mask == handles[j.h].mute
        IN  (MuteFinished(j) /\ t \in 0..(j.count - 1)) =>
                /\ \A v \in 0..(j.count - 1) : v \in DOMAIN mask /\ mask[v] = (v # t)
                /\ \A i \in 1..Len(j.reads) : j.reads[i].mute = mask

\* A render_stem job that isolates the last of at least two voices and has
\* made two read requests.
C1_Witness ==
    \E k \in Voices :
        /\ entry = "cli"
        /\ jobs[k].pc = "encoding"
        /\ jobs[k].count >= 2
        /\ Target(jobs[k]) = jobs[k].count - 1
        /\ Len(jobs[k].reads) >= 2

\* C2 (ordinal consistency): every file created carries a three-digit
\* ordinal k, and the job that created it had exactly the 0-based voice
\* k - 1 unmuted, at the end of its mute step and at each of its reads.
C2_OrdinalConsistency ==
    \A n \in 1..Len(creates) :
        LET c == creates[n]
            j == jobs[c.job]
            ordinal == DigitsValue(c.path.ord)
        IN  /\ Len(c.path.ord) = 3
            /\ Unmuted(handles[j.h].mute) = {ordinal - 1}
            /\ \A i \in 1..Len(j.reads) : Unmuted(j.reads[i].mute) = {ordinal - 1}

\* A finished run of at least two voices: the files of the first and of
\* the last voice both exist.
C2_Witness ==
    /\ runPc = "ok"
    /\ ModuleVoices >= 2
    /\ \E f \in files : DigitsValue(f.path.ord) = 1
    /\ \E f \in files : DigitsValue(f.path.ord) = ModuleVoices

\* C3 (one artifact per voice): a run that succeeds on a module with N
\* voices of the selected kind has created exactly N files, complete, with
\* the ordinals 1..N; for N = 0 no job was started, no handle but the
\* orchestrator's was loaded and no file exists.  No run ever holds more
\* than N files.
C3_OneArtifactPerVoice ==
    /\ Cardinality(files) <= ModuleVoices
    /\ runPc = "ok" =>
          /\ Cardinality(files) = ModuleVoices
          /\ Len(creates) = ModuleVoices
          /\ {DigitsValue(f.path.ord) : f \in files} = 1..ModuleVoices
          /\ \A f \in files : f.body.complete
          /\ ModuleVoices = 0 =>
                /\ \A k \in Voices : jobs[k] = PendingJob
                /\ Len(handles) = 1
                /\ files = {}

\* A finished run that wrote at least two files.
C3_Witness == runPc = "ok" /\ Cardinality(files) >= 2

\* C4 (voice kind selection): every job of a run is of the instrument kind
\* iff the module has at least one instrument, every file carries that
\* kind's label, every job counts the voices of that kind, and the sample
\* count is asked for only when there are no instruments.
C4_VoiceKindSelection ==
    LET instruments == module.num_instruments >= 1 IN
    /\ samplesQueried => ~instruments
    /\ \A k \in Voices :
          jobs[k].pc # "pending" => jobs[k].is_instrument = instruments
    /\ \A k \in Voices :
          MuteFinished(jobs[k]) => jobs[k].count = ModuleVoices
    /\ \A f \in files :
          f.path.label = (IF instruments THEN "instrument" ELSE "sample")

\* A module with instruments and samples whose run has written a file.
C4_Witness ==
    /\ module.num_instruments >= 1
    /\ module.num_samples >= 1
    /\ \E f \in files : f.body.complete /\ f.path.label = "instrument"

\* C5 (handle exclusivity): every handle has one user only; a job that got
\* past its load holds a handle that it alone has used, and no two jobs
\* hold the same handle.
C5_HandleExclusivity ==
    /\ \A n \in 1..Len(handles) : Cardinality(handles[n].users) = 1
    /\ \A k \in Voices :
          /\ jobs[k].pc \in ActivePcs \ {"started"} => jobs[k].h # 0
          /\ jobs[k].h # 0 => handles[jobs[k].h].users = {k}
    /\ \A k, l \in Voices :
          (k # l /\ jobs[k].h # 0 /\ jobs[l].h # 0) => jobs[k].h # jobs[l].h

\* Two jobs in their render loops at the same time, each with a read made.
C5_Witness ==
    \E k, l \in Voices :
        /\ k # l
        /\ jobs[k].pc = "rendering" /\ Len(jobs[k].reads) >= 1
        /\ jobs[l].pc = "rendering" /\ Len(jobs[l].reads) >= 1

\* Whether the inputs let a run reach its jobs and the jobs their encoders.
RunnableInputs ==
    /\ IF entry = "legacy" THEN legacy_format_ok(args.format)
       ELSE from_str(args.format) # "Err" /\ args.channels \in {1, 2}
            /\ args.bit_depth \in {16, 24}
    /\ disk.dirOk
    /\ module.loadable
    /\ module.interactive

\* The file names of a run as a function of its inputs alone (not of the
\* mode): one per voice of the selected kind.
StemNames ==
    IF RunnableInputs
    THEN {output_path(OutputDir, BaseName, type_label(module.num_instruments > 0), k,
                      IF entry = "legacy" THEN args.format
                      ELSE ext_str(from_str(args.format))) : k \in 1..ModuleVoices}
    ELSE {}

\* C6 (parallel/sequential equivalence): a run without file-system faults
\* ends, in sequential mode and under every interleaving of parallel mode,
\* with the same file names, a function of the inputs alone, each created
\* once.
C6_ParallelMatchesSequential ==
    (runPc \in {"ok", "failed"} /\ disk = GoodDisk) =>
        /\ {f.path : f \in files} = StemNames
        /\ Len(creates) = Cardinality(StemNames)

\* A finished parallel run of two voices in which the second voice's file
\* was created before the first's.
C6_Witness ==
    /\ parallel
    /\ runPc = "ok"
    /\ Len(creates) = 2
    /\ creates[1].job = 2
    /\ creates[2].job = 1

\* The position a read left the song at reached the job's duration.
AtEnd(j, r) == r.after >= j.total_duration

\* The accumulator's length once read i of job j was dealt with.
LenAfter(j, i) ==
    IF i < Len(j.reads) THEN j.reads[i + 1].before ELSE RunsLen(j.all_audio)

NonEmptyReads(j) == {i \in 1..Len(j.reads) : j.reads[i].rendered > 0}

\* C7 (render-loop stop condition): no read follows a read that rendered
\* zero frames or left the position at or past the duration; the loop is
\* left only after such a read; a zero-frame read appends nothing and does
\* not ask for the position; a non-empty read is appended in full; with a
\* duration <= 0 at most one non-empty read is accumulated.
C7_RenderLoopStop ==
    \A k \in Voices :
        LET j == jobs[k]
            n == Len(j.reads)
            stops(i) == j.reads[i].rendered = 0 \/ AtEnd(j, j.reads[i])
        IN  (MuteFinished(j) /\ j.pc # "panicked") =>
                /\ \A i \in 1..(n - 1) : ~stops(i)
                /\ j.pc = "rendering" => (n = 0 \/ ~stops(n))
                /\ j.pc # "rendering" => (n >= 1 /\ stops(n))
                /\ \A i \in 1..n :
                      LenAfter(j, i) = j.reads[i].before
                                       + j.reads[i].rendered * CopyChannels(j)
                /\ j.positionQueries = Cardinality(NonEmptyReads(j))
                /\ j.total_duration <= 0 => Cardinality(NonEmptyReads(j)) <= 1

\* A loop left after a second, non-empty read that reached the duration.
C7_Witness ==
    \E k \in Voices :
        /\ jobs[k].pc = "encoding"
        /\ Len(jobs[k].reads) = 2
        /\ jobs[k].reads[2].rendered > 0
        /\ AtEnd(jobs[k], jobs[k].reads[2])

\* The samples the reads of a job produced, read i's tagged i: for each
\* read its rendered frames times the channel count.
RECURSIVE RenderedAudio(_, _)
RenderedAudio(reads, channels) ==
    IF reads = <<>> THEN <<>>
    ELSE RunsAppend(RenderedAudio(SubSeq(reads, 1, Len(reads) - 1), channels),
                    Len(reads), reads[Len(reads)].rendered * channels)

RECURSIVE FramesRendered(_)
FramesRendered(reads) ==
    IF reads = <<>> THEN 0 ELSE Head(reads).rendered + FramesRendered(Tail(reads))

\* C8 (exact-prefix accumulation): with 1 or 2 channels, after any number
\* of reads the accumulator is the in-order concatenation of what each read
\* rendered, frames x channels samples per read; its length is the channel
\* count times the frames rendered, a multiple of the channel count; it
\* holds no sample the buffer was created with or kept from an earlier read.
C8_ExactPrefixAccumulation ==
    \A k \in Voices :
        LET j == jobs[k]
            c == CopyChannels(j)
        IN  (MuteFinished(j) /\ c \in {1, 2}) =>
                /\ j.all_audio = RenderedAudio(j.reads, c)
                /\ RunsLen(j.all_audio) = c * FramesRendered(j.reads)
                /\ RunsLen(j.all_audio) % c = 0
                /\ 0 \notin RunsTags(j.all_audio)

\* After a full read and a short one the buffer still holds samples of the
\* first read past the second's prefix, and the accumulator has both reads.
C8_Witness ==
    \E k \in Voices :
        /\ Len(jobs[k].reads) = 2
        /\ jobs[k].reads[2].rendered = 1
        /\ 1 \in RunsTags(jobs[k].samples)
        /\ RunsTags(jobs[k].all_audio) = {1, 2}

\* The rate C9 expects a job to use.
ExpectedRate ==
    IF opts.format = "Opus" /\ args.sample_rate \notin {8000, 12000, 16000, 24000, 48000}
    THEN 48000 ELSE args.sample_rate

\* C9 (Opus rate correction): in a render_stem job the rate is 48000 when
\* the format is Opus and the requested rate is not an Opus rate, and the
\* requested rate otherwise; every read is requested at that rate and every
\* file declares it.
C9_OpusRateCorrection ==
    entry = "cli" =>
        /\ \A k \in Voices :
              jobs[k].pc # "pending" =>
                  /\ jobs[k].options.sample_rate = ExpectedRate
                  /\ \A i \in 1..Len(jobs[k].reads) :
                        jobs[k].reads[i].rate = ExpectedRate
        /\ \A f \in files : f.body.sample_rate = ExpectedRate

\* An Opus file written for a request at 44100: a read was made and the
\* OpusHead is in place.
C9_Witness ==
    /\ entry = "cli"
    /\ args.sample_rate = 44100
    /\ \E k \in Voices : Len(jobs[k].reads) >= 1
    /\ \E f \in files : f.body.container = "opus" /\ f.body.complete

StemExtension(format) ==
    CASE format = "Wav" -> "wav"
      [] format = "Vorbis" -> "ogg"
      [] format = "Opus" -> "opus"
      [] format = "Flac" -> "flac"
      [] OTHER -> "?"

\* The path the naming rule gives the stem of 1-based voice k.
StemPath(k) ==
    [dir |-> OutputDir, base |-> BaseName,
     label |-> IF module.num_instruments >= 1 THEN "instrument" ELSE "sample",
     ord |-> Fmt03(k), ext |-> StemExtension(from_str(args.format))]

\* C11 (output naming): every file a run creates for 1-based voice k is
\* named {output_dir}/{base_name}_{kind_label}_{k:03}.{ext}, with ext given
\* by the format as wav->wav, vorbis->ogg, opus->opus, flac->flac, whichever
\* code path produced it and in whatever order the jobs ran.
C11_OutputNaming ==
    \A n \in 1..Len(creates) :
        /\ creates[n].path = StemPath(creates[n].job)
        /\ Len(creates[n].path.ord) >= 3

\* main.rs has written a Vorbis stem: its name ends in the format name,
\* "vorbis", where render_stem's ends in "ogg".
C11_Witness ==
    /\ entry = "legacy"
    /\ args.format = "vorbis"
    /\ \E f \in files :
          /\ f.body.complete
          /\ f.path.ext = "vorbis"
          /\ f.path = [StemPath(1) EXCEPT !.ext = "vorbis"]

\* Job positions in which the job's output file exists.
HasFile(j) == j.pc \in {"writing", "written", "done"}

\* C12 (WAV header round-trip): for options with 1 or 2 channels and a bit
\* depth of 16 or 24, at any sample rate, the header write_wav_file writes
\* declares exactly the requested channel count, sample rate and bits per
\* sample.
C12_WavHeaderRoundTrip ==
    \A k \in Voices :
        LET j == jobs[k] IN
        (/\ entry = "cli"
         /\ HasFile(j)
         /\ j.options.format = "Wav"
         /\ j.options.channels \in {1, 2}
         /\ j.options.bit_depth \in {16, 24}) =>
            LET header == OpenFile(j).body IN
            /\ header.container = "wav"
            /\ header.channels = j.options.channels
            /\ header.sample_rate = j.options.sample_rate
            /\ header.bits = j.options.bit_depth

\* A mono, 24-bit WAV file at 8000 Hz, header written.
C12_Witness ==
    \E k \in Voices :
        /\ HasFile(jobs[k])
        /\ jobs[k].options.format = "Wav"
        /\ jobs[k].options.channels = 1
        /\ jobs[k].options.bit_depth = 24
        /\ jobs[k].options.sample_rate = 8000
        /\ OpenFile(jobs[k]).body.channels = 1

\* C13 (WAV 24-bit widening): write_wav_file writes as many samples as the
\* PCM buffer holds, in input order; with a bit depth of 24 each sample s
\* is written as s * 256, a multiple of 256 within [-8388608, 8388607];
\* with a bit depth of 16 each sample is written unchanged.
C13_Wav24BitWidening ==
    \A k \in Voices :
        LET j == jobs[k] IN
        (/\ entry = "cli"
         /\ j.pc \in {"written", "done"}
         /\ j.options.format = "Wav"
         /\ j.options.bit_depth \in {16, 24}) =>
            LET written == OpenFile(j).body.pcm IN
            /\ Len(written) = Len(j.all_audio)
            /\ RunsLen(written) = RunsLen(j.all_audio)
            /\ \A i \in 1..Len(written) :
                  LET s == j.all_audio[i][1]
                      w == written[i][1]
                  IN  /\ written[i][2] = j.all_audio[i][2]
                      /\ s \in (-32768)..32767
                      /\ j.options.bit_depth = 24 =>
                            /\ w = s * 256
                            /\ w % 256 = 0
                            /\ w \in (-8388608)..8388607
                      /\ j.options.bit_depth = 16 => w = s

\* A 24-bit WAV file written from a buffer that holds the largest and the
\* smallest 16-bit sample.
C13_Witness ==
    \E k \in Voices :
        /\ jobs[k].pc = "written"
        /\ jobs[k].options.format = "Wav"
        /\ jobs[k].options.bit_depth = 24
        /\ {32767, -32768} \subseteq RunsTags(jobs[k].all_audio)
        /\ {8388352, -8388608} \subseteq RunsTags(OpenFile(jobs[k]).body.pcm)

\* The audio packets of an Ogg Opus file: those after the two headers.
AudioPackets(body) == SubSeq(body.packets, 3, Len(body.packets))

\* n / d rounded up.
CeilDiv(n, d) == (n + d - 1) \div d

\* The jobs that have an Ogg Opus file open or written.
OpusJobs == {k \in Voices : WritesPackets(jobs[k]) /\ HasFile(jobs[k])}

\* C14 (Opus framing): the PCM is cut into consecutive frames of rate/50
\* frames x channels samples; every packet handed to the encoder has
\* exactly that length; only the last frame may be short, and is then the
\* input extended with zeros; the packets' inputs, in order, are the PCM
\* consumed so far, and all of it once the file is written; there are
\* ceil(len / samples_per_frame) audio packets, none for an empty buffer.
C14_OpusFraming ==
    \A k \in OpusJobs :
        LET j == jobs[k]
            body == OpenFile(j).body
            audio == AudioPackets(body)
            spf == (j.options.sample_rate \div 50) * j.options.channels
            consumed == PacketInput(audio)
        IN  /\ j.options.sample_rate = 50 * (j.options.sample_rate \div 50)
            /\ \A i \in 1..Len(audio) :
                  LET n == RunsLen(audio[i].input) IN
                  /\ RunsLen(audio[i].data) = spf
                  /\ n \in 1..spf
                  /\ i < Len(audio) => n = spf
                  /\ RunsTake(audio[i].data, n) = audio[i].input
                  /\ RunsDrop(audio[i].data, n) \in {<<>>, <<<<0, spf - n>>>>}
                  /\ n < spf => i = Len(audio) /\ RunsLen(consumed) = RunsLen(j.all_audio)
            /\ consumed = RunsTake(j.all_audio, RunsLen(consumed))
            /\ Len(audio) = CeilDiv(RunsLen(consumed), spf)
            /\ j.pc \in {"written", "done"} =>
                  /\ consumed = j.all_audio
                  /\ Len(audio) = CeilDiv(RunsLen(j.all_audio), spf)
                  /\ RunsLen(j.all_audio) = 0 => Len(audio) = 0

\* A stereo file at 48000 Hz written from 1921 samples: one full frame of
\* 1920 samples and a last one of a single sample, padded.
C14_Witness ==
    \E k \in OpusJobs :
        LET audio == AudioPackets(OpenFile(jobs[k]).body) IN
        /\ jobs[k].pc = "written"
        /\ jobs[k].options.channels = 2
        /\ Len(audio) = 2
        /\ RunsLen(audio[1].input) = 1920
        /\ RunsLen(audio[2].input) = 1
        /\ RunsLen(audio[2].data) = 1920

\* The PCM of a job holds whole frames: a sample for every channel.
WholeFrames(j) == RunsLen(j.all_audio) % j.options.channels = 0

StartedJobs == {k \in Voices : jobs[k].pc # "pending"}

\* The output file of job k is completely written.
FileWritten(k) ==
    \E f \in files : f.path = jobs[k].output_path /\ f.body.complete

\* C16 (sequential ordering): in sequential mode at most one job is active;
\* the started jobs are the voices 1..n, started in that order; a job is
\* started only when every job before it is done, its file completely
\* written and its completion reported; and a job's completion is reported
\* only once its file is completely written.
C16_SequentialOrdering ==
    ~parallel =>
        /\ Cardinality({k \in Voices : Active(k)}) <= 1
        /\ StartedJobs = 1..(nextVoice - 1)
        /\ \A k \in StartedJobs : \A l \in 1..(k - 1) :
              /\ jobs[l].pc = "done"
              /\ jobs[l].reported
              /\ FileWritten(l)
        /\ \A k \in Voices : jobs[k].reported => FileWritten(k)
        /\ \A k \in Voices : jobs[k].pc = "done" <=> jobs[k].reported

\* A sequential run with the second voice's job in its render loop: the
\* first is done and reported, the third not yet started.
C16_Witness ==
    /\ ~parallel
    /\ ModuleVoices >= 3
    /\ jobs[1].pc = "done" /\ jobs[1].reported /\ FileWritten(1)
    /\ jobs[2].pc = "rendering" /\ Len(jobs[2].reads) >= 1
    /\ jobs[3].pc = "pending"

\* The jobs that have failed.
FailedJobs == {k \in Voices : jobs[k].pc \in {"failed", "panicked"}}

\* What holds in every state of a fail-fast run.
FailFastState ==
    /\ runPc = "ok" =>
          /\ FailedJobs = {}
          /\ \A k \in 1..ModuleVoices : jobs[k].pc = "done"
    /\ FailedJobs # {} => runPc \in {"jobs", "failed"}
    /\ ~parallel => \A k \in FailedJobs : \A l \in Voices : l > k => jobs[l] = PendingJob
    /\ Cardinality(FailedJobs) > 1 => parallel

\* What holds of every step of a fail-fast run: no job is started once a
\* job has failed, and a failed job and a failed run stay failed.
FailFastStep ==
    /\ \A k \in Voices :
          (jobs[k].pc = "pending" /\ jobs'[k].pc # "pending") => FailedJobs = {}
    /\ \A k \in FailedJobs : jobs'[k] = jobs[k]
    /\ runPc = "failed" => runPc' = "failed"

\* C17 (fail-fast): a run reports success only if the job of every voice
\* succeeded; once a job has failed (at its load, its interface probe or
\* its encoder) the run can only end in failure and no further job is
\* started; in sequential mode no job of a greater voice index has ever
\* been started.
C17_FailFast == []FailFastState /\ [][FailFastStep]_vars

\* A sequential run of three voices ended in failure after the job of the
\* second voice failed: the first is done, the third was never started.
C17_Witness ==
    /\ ~parallel
    /\ runPc = "failed"
    /\ jobs[1].pc = "done"
    /\ jobs[2].pc = "failed"
    /\ ModuleVoices >= 3
    /\ jobs[3] = PendingJob

\* The stage of the job state machine a job is in.
Stage(j) ==
    CASE j.pc = "pending" -> "Pending"
      [] j.pc \in {"started", "loaded", "probed", "muting", "unmute"} -> "Isolating"
      [] j.pc = "rendering" -> "Rendering"
      [] j.pc \in {"encoding", "writing", "written"} -> "Encoding"
      [] j.pc = "done" -> "Done"
      [] j.pc = "failed" -> "Failed"
      [] OTHER -> "Crashed"

StageOrder ==
    {<<"Pending", "Isolating">>, <<"Isolating", "Rendering">>,
     <<"Rendering", "Encoding">>, <<"Encoding", "Done">>}

\* The last read of a job ended its render loop.
LoopEnded(j) ==
    /\ Len(j.reads) >= 1
    /\ \/ j.reads[Len(j.reads)].rendered = 0
       \/ AtEnd(j, j.reads[Len(j.reads)])

\* What holds of every step of every job.
JobStep ==
    \A k \in Voices :
        LET a == Stage(jobs[k])
            b == Stage(jobs'[k])
        IN  /\ \/ a = b
               \/ <<a, b>> \in StageOrder
               \/ a \in {"Isolating", "Rendering", "Encoding"} /\ b = "Failed"
            /\ a \in {"Done", "Failed"} => jobs'[k] = jobs[k]
            /\ (a # b /\ b = "Rendering") =>
                  /\ jobs[k].i = jobs[k].count
                  /\ jobs'[k].reads = <<>>
                  /\ \A v \in 0..(jobs[k].count - 1) :
                        handles'[jobs[k].h].mute[v] = (v # Target(jobs[k]))
            /\ (a # b /\ b = "Encoding") => LoopEnded(jobs'[k])
            /\ (a # b /\ b = "Failed") =>
                  /\ jobs'[k].err # ""
                  /\ files' = files
                  /\ creates' = creates
                  /\ \A l \in Voices \ {k} :
                        /\ jobs'[l] = jobs[l]
                        /\ jobs[l].h # 0 => handles'[jobs[l].h] = handles[jobs[l].h]

\* C18 (job state machine): every job moves only along Pending ->
\* Isolating -> Rendering -> Encoding -> Done, one stage at a time and never
\* back; it enters Rendering only with its mute loop complete and Encoding
\* only with its render loop ended; from Isolating, Rendering or Encoding a
\* failure leads to Failed; Done and Failed are left no more; and the step
\* in which a job fails changes no other job, no other job's handle and no
\* file.
C18_JobStateMachine == [][JobStep]_vars

\* A parallel run in which the first voice's job has failed while the
\* second's is done, its file written.
C18_Witness ==
    /\ parallel
    /\ jobs[1].pc = "failed"
    /\ jobs[2].pc = "done"
    /\ FileWritten(2)

\* The job has counted its voices and its index is not one of them.
IndexOutOfRange(j) ==
    /\ j.pc \in {"muting", "unmute", "rendering", "encoding", "writing", "written",
                 "done", "failed"}
    /\ j.h # 0
    /\ j.err \notin {"Interactive interface not available"}
    /\ Target(j) \notin 0..(j.count - 1)

\* C19 (out-of-range voice index): a job whose index is outside
\* [0, voice_count) fails with an InvalidVoiceIndex error: it does not get
\* to its render loop, requests no read and creates no output file.
C19_InvalidVoiceIndex ==
    \A k \in Voices :
        IndexOutOfRange(jobs[k]) =>
            /\ jobs[k].pc \in {"muting", "failed"}
            /\ jobs[k].pc = "failed" => jobs[k].err = "InvalidVoiceIndex"
            /\ jobs[k].reads = <<>>
            /\ \A n \in 1..Len(creates) : creates[n].job # k

\* render_stem called with index 2 on a module of two instruments has
\* returned Ok: every voice was muted for each of its reads, and the stem
\* it wrote is named as that of a third instrument.
C19_Witness ==
    \E k \in Voices :
        /\ runPc = "lib"
        /\ jobs[k].pc = "done"
        /\ jobs[k].is_instrument
        /\ jobs[k].index = 2
        /\ jobs[k].count = 2
        /\ Len(jobs[k].reads) >= 1
        /\ \A i \in 1..Len(jobs[k].reads) : Unmuted(jobs[k].reads[i].mute) = {}
        /\ \E f \in files : f.body.complete /\ DigitsValue(f.path.ord) = 3

\* Whether the job of voice k gets its module loaded: the bytes load, and
\* main.rs's job can read them from the input file again.
Loads(k) == module.loadable /\ ~(entry = "legacy" /\ disk.openFailOrd = k)

PreRenderErrors ==
    {"cannot open input file", "Failed to load module",
     "Interactive interface not available"}

\* C20 (pre-render failures are clean): a job whose module bytes do not
\* load, or whose handle lacks the interactive interface, ends with an
\* error value, not a crash; it makes no mute, render-configuration or
\* read call on a handle and creates no file.  A run whose module does not
\* load, or whose output directory cannot be created, starts no job, and
\* leaves no file.
C20_PreRenderFailuresClean ==
    /\ \A k \in Voices :
          LET j == jobs[k] IN
          (j.pc # "pending" /\ (~Loads(k) \/ ~module.interactive)) =>
              /\ j.pc \in {"started", "loaded", "failed"}
              /\ j.pc = "failed" => j.err \in PreRenderErrors
              /\ ~Loads(k) => j.h = 0
              /\ j.i = 0
              /\ j.reads = <<>>
              /\ j.all_audio = <<>>
              /\ j.output_path = NoPath
              /\ \A n \in 1..Len(creates) : creates[n].job # k
              /\ j.h # 0 =>
                    LET h == handles[j.h] IN
                    /\ \A v \in DOMAIN h.mute : ~h.mute[v]
                    /\ h.configured = 0
                    /\ h.cursor = 0
                    /\ j.pc = "failed" => ~h.alive
    /\ (runPc # "lib" /\ (~module.loadable \/ ~disk.dirOk)) =>
          /\ runPc \in {"start", "args_ok", "dir_ok", "failed"}
          /\ \A k \in Voices : jobs[k] = PendingJob
          /\ handles = <<>>
          /\ files = {}
          /\ creates = <<>>

\* render_stem called on bytes that do not load has returned its error.
C20_Witness ==
    /\ runPc = "lib"
    /\ ~module.loadable
    /\ jobs[1].pc = "failed"
    /\ jobs[1].err = "Failed to load module"
    /\ handles = <<>>
    /\ files = {}

\* The render loop of job j run on its own, from handle h, chunk buffer
\* `samples` and accumulator `audio`: the PCM it ends with.
RECURSIVE RenderAlone(_, _, _, _)
RenderAlone(j, h, samples, audio) ==
    LET rendered == Rendered([j EXCEPT !.samples = samples], h)
        h2 == AfterRead(module, h)
        samples2 == BufferWrite(samples, h2.cursor,
                                rendered * (IF ReadsStereo(j) THEN 2 ELSE 1))
        n == num_samples_to_copy(rendered, CopyChannels(j))
    IN  IF rendered = 0 \/ n > RunsLen(samples2) THEN audio
        ELSE LET audio2 == extend_from_slice(audio, samples2, n) IN
             IF SongEnded(h2.position, module.duration) THEN audio2
             ELSE RenderAlone(j, h2, samples2, audio2)

\* The PCM and the path a stem job yields when nothing else runs: a
\* function of its index, kind and options and of the module bytes.
PcmAlone(j) == RenderAlone(j, NewHandle(module, 0), NewBuffer, <<>>)

PathAlone(j) ==
    [dir |-> OutputDir, base |-> BaseName, label |-> type_label(j.is_instrument),
     ord |-> Fmt03(Target(j) + 1),
     ext |-> IF entry = "legacy" THEN j.options.format ELSE ext_str(j.options.format)]

\* The mute mask of a fresh handle with all voices but t muted.
MaskAlone(t) == [v \in VoiceTable(module) |-> v # t]

\* C21 (idempotence of a stem render): whatever jobs ran before, between
\* or concurrently, a job whose render loop has ended holds the PCM, and
\* names the path, that its index, kind and options and the module bytes
\* alone determine: every one of its reads was made on a handle muted for
\* its voice only and configured from its options, starting at the song's
\* start.  Two executions for the same voice therefore agree.
C21_RenderIdempotent ==
    \A k \in Voices :
        LET j == jobs[k] IN
        j.pc \in {"encoding", "writing", "written", "done"} =>
            /\ j.all_audio = PcmAlone(j)
            /\ j.output_path = PathAlone(j)
            /\ j.reads # <<>> => j.reads[1].before = 0
            /\ \A i \in 1..Len(j.reads) :
                  /\ j.reads[i].mute = MaskAlone(Target(j))
                  /\ j.reads[i].rate = j.options.sample_rate
            /\ \A l \in Voices :
                  (/\ jobs[l].pc \in {"encoding", "writing", "written", "done"}
                   /\ jobs[l].index = j.index
                   /\ jobs[l].is_instrument = j.is_instrument
                   /\ jobs[l].options = j.options) =>
                      /\ jobs[l].all_audio = j.all_audio
                      /\ jobs[l].output_path = j.output_path

\* A parallel run in which the job of the first voice ended its render
\* loop, two chunks long, after the job of the second voice had finished
\* and while it was the later of the two to start reading.
C21_Witness ==
    /\ parallel
    /\ jobs[2].pc = "done"
    /\ jobs[1].pc = "encoding"
    /\ Len(jobs[1].reads) = 2
    /\ RunsLen(jobs[1].all_audio) > 0
    /\ jobs[1].h > jobs[2].h

\* The format a name stands for whatever its letters' case, "Err" if none.
FormatNamed(name) ==
    CASE name \in {"wav", "WAV", "Wav"} -> "Wav"
      [] name \in {"vorbis", "VORBIS", "Vorbis", "ogg", "OGG", "Ogg"} -> "Vorbis"
      [] name \in {"opus", "OPUS", "Opus"} -> "Opus"
      [] name \in {"flac", "FLAC", "Flac"} -> "Flac"
      [] OTHER -> "Err"

\* The run's format name is one that its front end rejects.
NameRejected ==
    IF entry = "legacy" THEN ~legacy_format_ok(args.format)
    ELSE FormatNamed(args.format) = "Err"

FilterLengthOf(method) ==
    CASE method = "Nearest" -> 1
      [] method = "Linear" -> 2
      [] method = "Cubic" -> 4
      [] method = "Sinc" -> 8

\* C23 (configuration before rendering): a render_stem job applies the
\* render configuration exactly once, before its first read: until then
\* its handle is unconfigured and no read was made; from then on the
\* handle's filter length is that of the resampling option (nearest 1,
\* linear 2, cubic 4, sinc 8) and its stereo separation that of the
\* options, and every read of the render loop was made under exactly this
\* configuration.
C23_ConfiguredBeforeRender ==
    \A k \in Voices :
        LET j == jobs[k] IN
        (entry = "cli" /\ j.h # 0) =>
            LET h == handles[j.h] IN
            /\ j.pc \in {"loaded", "probed"} =>
                  /\ h.configured = 0
                  /\ j.reads = <<>>
            /\ j.pc \in {"muting", "rendering", "encoding", "writing", "written",
                         "done", "panicked"} =>
                  /\ h.configured = 1
                  /\ h.filter = FilterLengthOf(j.options.resample)
                  /\ h.separation = j.options.stereo_separation
            /\ h.configured <= 1
            /\ \A i \in 1..Len(j.reads) :
                  /\ j.reads[i].filter = FilterLengthOf(j.options.resample)
                  /\ j.reads[i].separation = j.options.stereo_separation

\* render_stem with cubic resampling and a separation of 50 has returned
\* after two reads.
C23_Witness ==
    /\ runPc = "lib"
    /\ jobs[1].pc = "done"
    /\ jobs[1].options.resample = "Cubic"
    /\ jobs[1].options.stereo_separation = 50
    /\ Len(jobs[1].reads) >= 2
    /\ handles[jobs[1].h].configured = 1
    /\ jobs[1].reads[2].filter = 4

\* The job has left its render loop for the encoder.
LoopLeft(k) == jobs[k].pc \in {"encoding", "writing", "written", "done"}

\* C24 (termination of the render loop): with an engine whose position
\* strictly advances with each non-empty chunk and whose duration is finite,
\* even one that never returns a zero-frame chunk, and with an engine that
\* eventually returns a zero-frame chunk, even if its position never
\* reaches the duration, a job in its render loop eventually leaves it and
\* reaches encoding.
C24_RenderLoopTerminates ==
    \A k \in Voices : (jobs[k].pc = "rendering") ~> LoopLeft(k)

\* A job on an endless engine has reached encoding: none of its reads
\* returned zero frames, and the last one reached the duration.
C24_Witness ==
    /\ module.endless
    /\ jobs[1].pc = "encoding"
    /\ Len(jobs[1].reads) >= 2
    /\ \A i \in 1..Len(jobs[1].reads) : jobs[1].reads[i].rendered > 0
    /\ handles[jobs[1].h].position >= module.duration

\* The job holds a module handle that has not been destroyed.
HoldsHandle(k) == jobs[k].h # 0 /\ handles[jobs[k].h].alive

\* C25 as stated (handle lifetime): a job's handle is destroyed as soon as
\* its PCM is fully captured, before encoding and file writing begin, so
\* that in sequential mode no stem handle is alive while a file is being
\* written.
C25_HandleDroppedBeforeEncoding ==
    /\ \A k \in Voices :
          jobs[k].pc \in {"encoding", "writing", "written"} => ~HoldsHandle(k)
    /\ ~parallel =>
          ((\E f \in files : ~f.body.complete) => \A k \in Voices : ~HoldsHandle(k))

\* C25 as the code has it (handle lifetime): a job's handle is created at
\* its start, by the load, and destroyed when the job function returns:
\* it is alive through isolation, the render loop, encoding and the writing
\* of the file, and dead once the job is done or has failed.  In
\* sequential mode at most one stem handle is alive at any time, and while
\* a file is being written it is that of the writing job.
C25_HandleLifetime ==
    /\ \A k \in Voices :
          /\ jobs[k].pc \in {"pending", "started"} => jobs[k].h = 0
          /\ jobs[k].h # 0 =>
                (handles[jobs[k].h].alive <=>
                    jobs[k].pc \in {"loaded", "probed", "muting", "unmute", "rendering",
                                    "encoding", "writing", "written"})
    /\ ~parallel =>
          /\ Cardinality({k \in Voices : HoldsHandle(k)}) <= 1
          /\ \A k \in Voices :
                jobs[k].pc \in {"writing", "written"} => HoldsHandle(k)

\* A sequential run in which a job is writing its file, the PCM of two
\* reads captured, while its handle is still alive.
C25_Witness ==
    /\ ~parallel
    /\ \E k \in Voices :
          /\ jobs[k].pc = "writing"
          /\ Len(jobs[k].reads) >= 2
          /\ RunsLen(jobs[k].all_audio) > 0
          /\ HoldsHandle(k)
          /\ \E f \in files : f.path = jobs[k].output_path /\ ~f.body.complete

OpusValidationErrors ==
    {"Opus only supports 1 or 2 channels",
     "Opus only supports 8, 12, 16, 24, or 48 kHz"}

\* The configuration is one the Opus encoder rejects.
OpusRejects(options) ==
    /\ options.format = "Opus"
    /\ \/ options.channels \notin {1, 2}
       \/ options.sample_rate \notin {8000, 12000, 16000, 24000, 48000}

\* C26 (validation precedes file I/O): a job whose encoder returned a
\* validation error has created no file, and a file an earlier run left at
\* its destination is still there, whole and unchanged; and a job whose
\* configuration the Opus encoder rejects never gets past the encoder's
\* checks: it opens no file and ends with the validation error.
C26_ValidationBeforeFile ==
    \A k \in Voices :
        LET j == jobs[k] IN
        /\ (j.pc = "failed" /\ j.err \in OpusValidationErrors) =>
              /\ \A n \in 1..Len(creates) : creates[n].job # k
              /\ \A f \in files : f.path = j.output_path => f.body = OldBody
        /\ (entry = "cli" /\ OpusRejects(j.options)
            /\ j.pc \in {"encoding", "writing", "written", "done", "failed"}
            /\ j.err \notin PreRenderErrors) =>
              /\ j.pc \in {"encoding", "failed"}
              /\ j.pc = "failed" => j.err \in OpusValidationErrors
              /\ \A n \in 1..Len(creates) : creates[n].job # k

\* write_audio_file called for a three-channel Opus file, over a file an
\* earlier run left, has returned its validation error: the old file is
\* still there.
C26_Witness ==
    /\ runPc = "lib"
    /\ jobs[1].options.format = "Opus"
    /\ jobs[1].options.channels = 3
    /\ jobs[1].pc = "failed"
    /\ jobs[1].err = "Opus only supports 1 or 2 channels"
    /\ files = {[path |-> jobs[1].output_path, body |-> OldBody]}

\* The render loop of the job has ended with nothing captured.
EmptyRender(j) ==
    /\ j.pc \in {"encoding", "writing", "written", "done", "failed"}
    /\ j.h # 0
    /\ Len(j.reads) >= 1
    /\ j.all_audio = <<>>

C28_ChunkCopyInBounds ==
    \A k \in Voices :
        LET j == jobs[k] IN
        /\ j.pc # "panicked"
        /\ \A i \in 1..Len(j.reads) :
              num_samples_to_copy(j.reads[i].rendered, CopyChannels(j)) <= RunsLen(j.samples)

\* render_stem called with three channels: its first read, a mono read
\* into the first 4096 samples, returned 4096 frames, and the copy of
\* 12288 samples from the buffer of 8192 aborted the job.
C28_Witness ==
    /\ runPc = "lib"
    /\ jobs[1].options.channels = 3
    /\ jobs[1].pc = "panicked"
    /\ Len(jobs[1].reads) = 1
    /\ ~jobs[1].reads[1].stereo
    /\ jobs[1].reads[1].rendered = MonoSliceLen
    /\ RunsLen(jobs[1].samples) = ChunkBufferLen
    /\ jobs[1].reads[1].rendered * jobs[1].options.channels > ChunkBufferLen
    /\ files = {}

\* The job has computed its output path.
HasPath(k) == jobs[k].output_path # NoPath

\* C29 (no output collision): the ordinal in a job's path is the decimal
\* numeral of its 1-based voice number, padded to three digits and never
\* cut, whether it has one digit or five, so that two jobs of one kind with
\* distinct voice indices have distinct paths; no two file creations of a
\* run name the same path, and none replaces a file another job created.
C29_NoOutputCollision ==
    /\ \A k \in Voices :
          HasPath(k) =>
              LET ord == jobs[k].output_path.ord IN
              /\ DigitsValue(ord) = Target(jobs[k]) + 1
              /\ Len(ord) >= 3
              /\ Len(ord) > 3 => ord[1] # 0
    /\ \A k, l \in Voices :
          (/\ HasPath(k) /\ HasPath(l)
           /\ jobs[k].index # jobs[l].index
           /\ jobs[k].is_instrument = jobs[l].is_instrument) =>
              jobs[k].output_path # jobs[l].output_path
    /\ \A n, m \in 1..Len(creates) :
          n # m => (creates[n].path # creates[m].path /\ creates[n].job # creates[m].job)
    /\ Cardinality(files) = Len(creates)

\* render_stem called for the voices 999 and 1000 has written both stems,
\* the 1000th with a four-digit ordinal and the 1001st likewise, under two
\* names.
C29_Witness ==
    /\ runPc = "lib"
    /\ jobs[1].index = 999 /\ jobs[2].index = 1000
    /\ jobs[1].pc = "done" /\ jobs[2].pc = "done"
    /\ jobs[1].output_path.ord = <<1, 0, 0, 0>>
    /\ jobs[2].output_path.ord = <<1, 0, 0, 1>>
    /\ Cardinality(files) = 2
    /\ \A f \in files : f.body.complete

=============================================================================
